---- MODULE Spec2Model ----
(***************************************************************************)
(* Model of data-forge's src/main.py: the OpenAIGenerator pipeline         *)
(* (write_csv, generate_dataset, combine_datasets, merge_input_output,    *)
(* pipeline) and the command-line block that drives it.                  *)
(*                                                                         *)
(* Text is modelled as follows.  A field value is a non-empty sequence of  *)
(* segments, the pieces of the value between occurrences of the delimiter  *)
(* ';' (<<"a","b">> is the text "a;b", <<"">> is the empty text).  A line   *)
(* of a csv file is the sequence of cells a delimiter-splitting reader     *)
(* sees; a cell records whether it is enclosed in double quotes.  Values   *)
(* hold no line break, no double quote and no text that pandas reads as a  *)
(* number or as a missing-value marker other than the empty text.          *)
(***************************************************************************)
EXTENDS Integers, Sequences, FiniteSets, TLC

\* ------------------------------------------------------------------ bounds
MaxRows == 2
MaxReplyLen == 2
MaxRuns == 2
MaxArgs == 4
FirstStepIterations == 2
SecondStepIterations == 1

\* ------------------------------------------------------------- text values
NaN == <<>>

Sep == "->: "

Keys == {"instruction", "input", "output"}

InstructionValues == {<<"i">>}

InputValues == {<<"q">>, <<"">>, <<"q", "r", "s">>}

OutputValues == {<<"o">>}

ValuesOf(k) ==
  IF k = "instruction" THEN InstructionValues
  ELSE IF k = "input" THEN InputValues
  ELSE OutputValues

AllValues == InstructionValues \cup InputValues \cup OutputValues

ObjectsWith(K) == {d \in [K -> AllValues] : \A k \in K : d[k] \in ValuesOf(k)}

\* the well-formed objects: all three keys, each with a text value
Records == ObjectsWith(Keys)

\* a parsed JSON object: well-formed, or without its "input" key
Objects == Records \cup ObjectsWith(Keys \ {"input"})

RECURSIVE SeqsUpTo(_, _)
SeqsUpTo(S, n) ==
  IF n = 0 THEN {<<>>}
  ELSE LET shorter == SeqsUpTo(S, n - 1)
       IN shorter \cup {Append(q, x) : q \in {p \in shorter : Len(p) = n - 1}, x \in S}

\* the payload of a reply: text that is not JSON, a JSON array of objects, or
\* one JSON object that is not in an array
NonJSON == [kind |-> "text", array |-> <<>>]

JSONObject == [kind |-> "object", array |-> <<>>]

Array(a) == [kind |-> "array", array |-> a]

\* json.loads raises JSONDecodeError
RaisesJSONDecodeError(reply) == reply.kind = "text"

\* lines 62-66: the loop over a JSON object yields its keys, each a str, and
\* data['instruction'] on a str raises TypeError, which nothing catches
RaisesTypeErrorInLoop(reply) == reply.kind = "object"

RepliesOver(objs, n) == {NonJSON} \cup {Array(a) : a \in SeqsUpTo(objs, n)}

Replies == RepliesOver(Objects, MaxReplyLen) \cup {JSONObject}

\* replies of well-formed objects only
PlainReplies == RepliesOver(Records, MaxReplyLen)

\* no reply but the shortest ones
ShortReplies == RepliesOver(Records, 1)

\* ------------------------------------------------------------------- files
Unquoted(s) == [q |-> FALSE, v |-> <<s>>]

HeaderLine == <<Unquoted("instruction"), Unquoted("input"), Unquoted("output"), Unquoted("text")>>

Absent == [exists |-> FALSE, lines |-> <<>>]

Empty == [exists |-> TRUE, lines |-> <<>>]

File(ls) == [exists |-> TRUE, lines |-> ls]

RECURSIVE Cells(_)
Cells(v) == IF v = <<>> THEN <<>> ELSE <<Unquoted(Head(v))>> \o Cells(Tail(v))

\* json.dumps of a text: the text enclosed in double quotes
json_dumps(v) == [q |-> TRUE, v |-> v]

\* the row of lines 65-69: instruction;input;json.dumps(output)
FormatRow(data) ==
  Cells(data["instruction"]) \o Cells(data["input"]) \o <<json_dumps(data["output"])>>

RaisesKeyError(data) == ~(Keys \subseteq DOMAIN data)

\* a KeyError that is not caught per object ends the loop
RECURSIVE WriteRowsUntilKeyError(_, _)
WriteRowsUntilKeyError(lines, array) ==
  IF array = <<>> \/ RaisesKeyError(Head(array)) THEN lines
  ELSE WriteRowsUntilKeyError(Append(lines, FormatRow(Head(array))), Tail(array))

\* lines 62-72
RECURSIVE WriteRows(_, _)
WriteRows(lines, array) ==
  IF array = <<>> THEN lines
  ELSE IF RaisesKeyError(Head(array)) THEN WriteRows(lines, Tail(array))
  ELSE WriteRows(Append(lines, FormatRow(Head(array))), Tail(array))

\* open(path, "w")
OpenTruncate(f) == File(<<>>)

\* open(path, "a"): an absent file is created empty, content is kept
OpenAppend(f) == File(f.lines)

WriteHeaderAlways(f) == File(Append(f.lines, HeaderLine))

\* lines 58-60
WriteHeaderIfEmpty(f) == IF f.lines = <<>> THEN File(<<HeaderLine>>) ELSE f

\* the file opened before the payload is parsed
write_csv_open_first(f, reply) ==
  IF RaisesJSONDecodeError(reply) THEN OpenAppend(f)
  ELSE File(WriteRows(WriteHeaderIfEmpty(OpenAppend(f)).lines, reply.array))

\* write_csv on the file of the subject, for the payload of self.response
write_csv(f, reply) ==
  IF RaisesJSONDecodeError(reply) THEN f
  ELSE LET opened == WriteHeaderIfEmpty(OpenAppend(f))
       IN File(WriteRows(opened.lines, reply.array))

\* ------------------------------------------------------------------ pandas
Max(a, b) == IF a > b THEN a ELSE b

\* an empty field, quoted or not, is read as the missing value
CellValue(c) == IF c.v = <<"">> THEN NaN ELSE c.v

ToCell(v) ==
  IF v = NaN THEN Unquoted("")
  ELSE IF Len(v) > 1 THEN [q |-> TRUE, v |-> v]
  ELSE [q |-> FALSE, v |-> v]

\* the number of fields every row of the table has: the header's, or the
\* first data row's when that one is longer (its leading fields then are
\* the index of the frame)
TableWidth(lines) ==
  IF Len(lines) = 1 THEN Len(lines[1]) ELSE Max(Len(lines[1]), Len(lines[2]))

ReadError(f) ==
  IF ~f.exists THEN "FileNotFoundError"
  ELSE IF f.lines = <<>> THEN "EmptyDataError"
  ELSE IF \E i \in 3..Len(f.lines) : Len(f.lines[i]) > TableWidth(f.lines) THEN "ParserError"
  ELSE "none"

\* one data line as a row of the frame: short rows are filled with the
\* missing value, the index fields are left out
FrameRow(line, width, ncols) ==
  [j \in 1..ncols |->
     LET k == j + (width - ncols)
     IN IF k <= Len(line) THEN CellValue(line[k]) ELSE NaN]

\* pd.read_csv(path, delimiter=";") of a file that ReadError accepts
read_csv(f) ==
  LET ncols == Len(f.lines[1])
      width == TableWidth(f.lines)
  IN [cols |-> [j \in 1..ncols |-> f.lines[1][j].v],
      rows |-> [i \in 1..(Len(f.lines) - 1) |-> FrameRow(f.lines[i + 1], width, ncols)]]

RowLine(row) == [j \in 1..Len(row) |-> ToCell(row[j])]

\* the header line left out whatever header= says
to_csv_rows_only(df, header) ==
  [i \in 1..Len(df.rows) |-> RowLine(df.rows[i])]

\* df.to_csv(..., index=False, sep=";"): the lines written
to_csv(df, header) ==
  (IF header THEN <<RowLine(df.cols)>> ELSE <<>>) \o
  [i \in 1..Len(df.rows) |-> RowLine(df.rows[i])]

ColIndex(cols, name) == CHOOSE j \in 1..Len(cols) : cols[j] = <<name>>

\* a + b on text: the last segment of a runs into the first of b
Cat(a, b) == SubSeq(a, 1, Len(a) - 1) \o <<a[Len(a)] \o b[1]>> \o Tail(b)

\* a + "->: " + b
Concat(a, b) == Cat(Cat(a, <<Sep>>), b)

\* str + float raises TypeError
RaisesTypeError(cols, row) ==
  row[ColIndex(cols, "input")] = NaN \/ row[ColIndex(cols, "output")] = NaN

merge_input_output(cols, row) ==
  [row EXCEPT ![ColIndex(cols, "text")] =
     Concat(row[ColIndex(cols, "input")], row[ColIndex(cols, "output")])]

\* df.apply(self.merge_input_output, axis=1) of a frame no row of which raises
Apply(df) ==
  [cols |-> df.cols,
   rows |-> [i \in 1..Len(df.rows) |-> merge_input_output(df.cols, df.rows[i])]]

\* ------------------------------------------------------------- file system
\* A file name is a sequence of pieces, a path a sequence of names.
Subjects == {"math", "bio"}

GenName(s) == <<"llama-", s, "-dataset.csv">>

ManualName(s) == <<"manual-questions-", s, ".csv">>

GeneratedDir == << <<"src">>, <<"datasets">>, <<"generated">> >>

ManualDir == << <<"src">>, <<"datasets">>, <<"manual">> >>

GenPath(s) == Append(GeneratedDir, GenName(s))

CorpusPath == << <<"src">>, <<"datasets">>, <<"bigbrain-dataset.csv">> >>

ManualPath(s) == Append(ManualDir, ManualName(s))

\* a file of a generated file's name, kept beside the generated directory
StrayPath(s) == << <<"src">>, <<"datasets">>, GenName(s) >>

GenPaths == {GenPath(s) : s \in Subjects}

ManualPaths == {ManualPath(s) : s \in Subjects}

StrayPaths == {StrayPath(s) : s \in Subjects}

\* every subject written to the corpus file
TargetPathCorpus(s) == CorpusPath

\* the file write_csv opens for a subject
TargetPath(s) == GenPath(s)

Paths == GenPaths \cup ManualPaths \cup StrayPaths \cup {CorpusPath}

Wild == ".*"

\* the patterns of lines 144, 172, 173 and 192, one element per path component
GenNamePattern == << <<"llama-", Wild, "-dataset.csv">> >>

GenPathPattern == Append(GeneratedDir, <<"llama-", Wild, "-dataset.csv">>)

ManualPathPattern == Append(ManualDir, <<"manual-questions-", Wild, ".csv">>)

CorpusPathPattern == CorpusPath

NameMatches(pat, name) ==
  /\ Len(pat) = Len(name)
  /\ \A k \in 1..Len(pat) : pat[k] = Wild \/ pat[k] = name[k]

\* re.search(pattern, text) for a text that is a path
re_search(pattern, text) ==
  \E off \in 0..(Len(text) - Len(pattern)) :
    \A k \in 1..Len(pattern) : NameMatches(pattern[k], text[off + k])

\* os.listdir(): the names of the entries of the working directory
listdir(files) ==
  {<<"dataforge-config.json">>} \cup {p[1] : p \in {x \in DOMAIN files : files[x].exists}}
     \cup {<<"src">>}

\* the file names os.walk(".") yields that line 144 accepts
Discovered(files) ==
  {p \in DOMAIN files : files[p].exists /\ re_search(GenNamePattern, <<p[Len(p)]>>)}

RECURSIVE Orders(_)
Orders(S) ==
  IF S = {} THEN {<<>>}
  ELSE UNION {{<<x>> \o o : o \in Orders(S \ {x})} : x \in S}

FileAt(files, p) == IF p \in DOMAIN files THEN files[p] ELSE Absent

\* lines 142-155: every discovered name is read from the generated directory
\* and its frame is appended to the corpus; a read that raises ends the loop
RECURSIVE CombineLoop(_, _, _)
CombineLoop(lines, order, files) ==
  IF order = <<>> THEN [lines |-> lines, err |-> "none"]
  ELSE LET name == Head(order)[Len(Head(order))]
           f == FileAt(files, Append(GeneratedDir, name))
       IN IF ReadError(f) # "none" THEN [lines |-> lines, err |-> ReadError(f)]
          ELSE CombineLoop(lines \o to_csv(read_csv(f), FALSE), Tail(order), files)

\* the corpus opened with 'a': what it held stays before the header
combine_datasets_append(files, order) ==
  CombineLoop(FileAt(files, CorpusPath).lines \o <<HeaderLine>>, order, files)

\* combine_datasets for one discovery order: the corpus and the exception
combine_datasets(files, order) == CombineLoop(<<HeaderLine>>, order, files)

ManualInstruction ==
  "Tu es un analyseur de donnees charge d'aider les etudiants a trouver des ressources repond au mieux en format JSON."

\* "%s" of a frame value
Str(v) == IF v = NaN THEN <<"nan">> ELSE v

\* the line of lines 119-124 for one row of the seed frame
ManualRow(row) ==
  Cells(<<ManualInstruction>> \o Str(row[2]) \o
        Cat(Cat(Cat(Cat(<<"{\"topic\": ">>, Str(row[3])), <<", \"subject\": ">>), Str(row[4])), <<"}">>)
        \o <<"">>)

\* add_manual_questions(manual_questions, dataset): the dataset file after it
add_manual_questions(manual, dataset) ==
  LET df == read_csv(manual)
  IN File(dataset.lines \o [i \in 1..Len(df.rows) |-> ManualRow(df.rows[i])])

\* lines 171-175: the names of the working directory that both patterns accept
ManualMatches(files) ==
  {n \in listdir(files) : re_search(GenPathPattern, <<n>>) /\ re_search(ManualPathPattern, <<n>>)}

\* lines 191-192: the names of the working directory the corpus pattern accepts
DuplicateMatches(files) ==
  {n \in listdir(files) : re_search(CorpusPathPattern, <<n>>)}

\* DuplicatesVerification.verify_duplicates: one row per class of equal rows,
\* the first one seen, the header kept
RECURSIVE FirstSeen(_, _)
FirstSeen(seen, rest) ==
  IF rest = <<>> THEN seen
  ELSE IF \E k \in 1..Len(seen) : seen[k] = Head(rest) THEN FirstSeen(seen, Tail(rest))
  ELSE FirstSeen(Append(seen, Head(rest)), Tail(rest))

verify_duplicates(f) ==
  IF f.lines = <<>> THEN f ELSE File(<<f.lines[1]>> \o FirstSeen(<<>>, Tail(f.lines)))

\* ------------------------------------------------------------------- state
VARIABLES
  files,       \* the dataset files: path -> [exists, lines]
  args,        \* sys.argv[1:] of the running process
  pc,          \* where the process is: idle, first, gen, manual, second, combine, postpass, nodup, exit
  subject,     \* generate_dataset's subject
  identifier,  \* generate_dataset's identifier
  iteration,   \* generate_dataset's loop counter: iterations completed
  response,    \* self.response: the payload of the last reply
  walk,        \* the order in which the last combine discovered its files
  out,         \* what the process has printed
  error,       \* the exception that ended the process, "none" if none
  trace,       \* the stages the process began and ended, in order
  runs         \* processes started so far

vars == <<files, args, pc, subject, identifier, iteration, response, walk, out, error, trace, runs>>

Range(q) == {q[k] : k \in 1..Len(q)}

list_args == {"--first-generation", "--second-generation", "--combine", "--no-duplicates", "--subject"}

subject_list == Subjects

ArgTokens == list_args \cup subject_list \cup {"bogus"}

ArgLists == SeqsUpTo(ArgTokens, MaxArgs)

\* the argument lists of the ordinary use of the program
GenLists ==
  UNION {{<<"--first-generation", "--subject", s>>, <<"--subject", s, "--second-generation">>} : s \in Subjects}

\* both generation stages in one run, alone or followed by the other stages
LongLists ==
  UNION {{<<"--second-generation", "--first-generation", "--subject", s>>,
          <<"--first-generation", "--second-generation", "--combine", "--no-duplicates", "--subject", s>>}
         : s \in Subjects}

RunLists ==
  GenLists \cup LongLists \cup {<<"--combine">>, <<"--no-duplicates", "--combine">>, <<"--no-duplicates">>}

\* list.index(x) of a list that holds x
Index(q, x) == CHOOSE k \in 1..Len(q) : q[k] = x /\ \A j \in 1..(k - 1) : q[j] # x

\* self.response = None
NoResponse == [kind |-> "none", array |-> <<>>]

gen(s) == files[GenPath(s)]

corpus == files[CorpusPath]

DataRows(f) == IF f.lines = <<>> THEN 0 ELSE Len(f.lines) - 1

\* the seed file of a subject: its header and two questions, the fields of
\* lines 122-123 in the second, third and fourth place
ManualHeader == <<Unquoted("id"), Unquoted("question"), Unquoted("topic"), Unquoted("subject")>>

ManualLine(n, s) == <<Unquoted(n), Unquoted("question-" \o n), Unquoted("topic-" \o n), Unquoted(s)>>

ManualFile(s) == File(<<ManualHeader, ManualLine("a", s), ManualLine("b", s)>>)

\* a file of the generated files' form with one row
OneRowFile == File(<<HeaderLine, FormatRow([instruction |-> <<"i">>, input |-> <<"q">>, output |-> <<"o">>])>>)

\* the corpus a --combine stage leaves of one generated file with one row
OldCorpus == File(to_csv(Apply(read_csv(OneRowFile)), TRUE))

\* no process has run: every generated file is absent or empty and every seed
\* file is there; the files beside the generated directory are among strays,
\* the corpus among corpora
InitWith(strays, corpora) ==
  /\ \E g \in [GenPaths -> {Absent, Empty}], st \in [StrayPaths -> strays], c \in corpora :
       files = [p \in Paths |->
                  IF p \in GenPaths THEN g[p]
                  ELSE IF p \in StrayPaths THEN st[p]
                  ELSE IF p = CorpusPath THEN c
                  ELSE ManualFile(p[Len(p)][2])]
  /\ args = <<>>
  /\ pc = "idle"
  /\ subject = "none"
  /\ identifier = 0
  /\ iteration = 0
  /\ response = NoResponse
  /\ walk = <<>>
  /\ out = {}
  /\ error = "none"
  /\ trace = <<>>
  /\ runs = 0

\* nothing beside the generated directory, no corpus yet
Init == InitWith({Absent}, {Absent})

\* files of generated files' names may lie beside the generated directory
InitStray == InitWith({Absent, OneRowFile}, {Absent})

\* an earlier run may have left a corpus
InitOld == InitWith({Absent}, {Absent, OldCorpus})

\* lines 210-217: when the usage text is printed
PrintsUsage(a) == a = <<>> \/ ~(Range(a) \subseteq (list_args \cup subject_list))

\* lines 219-229: "pipeline" when generator.pipeline is called, else what ends the process
Dispatch(a) ==
  IF "--first-generation" \notin Range(a) /\ "--second-generation" \notin Range(a) THEN "pipeline"
  ELSE IF "--subject" \notin Range(a) THEN "specify-subject"
  ELSE IF Index(a, "--subject") + 1 > Len(a) THEN "IndexError"
  ELSE IF a[Index(a, "--subject") + 1] \notin subject_list THEN "valid-subject"
  ELSE "pipeline"

\* the __main__ block for the argument list a
Main(a) ==
  /\ pc \in {"idle", "exit"}
  /\ runs < MaxRuns
  /\ runs' = runs + 1
  /\ args' = a
  /\ subject' = "none"
  /\ identifier' = 0
  /\ iteration' = 0
  /\ response' = NoResponse
  /\ walk' = <<>>
  /\ trace' = <<>>
  /\ LET usage == IF PrintsUsage(a) THEN {"usage"} ELSE {}
         d == Dispatch(a)
     IN /\ pc' = IF d = "pipeline" THEN "first" ELSE "exit"
        /\ error' = IF d = "IndexError" THEN d ELSE "none"
        /\ out' = usage \cup (IF d \in {"specify-subject", "valid-subject"} THEN {d} ELSE {})
  /\ UNCHANGED files

\* ---------------------------------------------------------------- pipeline
\* execution_list[execution_list.index("--subject") + 1]
SubjectArgError(a) ==
  IF "--subject" \notin Range(a) THEN "ValueError"
  ELSE IF Index(a, "--subject") + 1 > Len(a) THEN "IndexError"
  ELSE "none"

SubjectArg(a) == a[Index(a, "--subject") + 1]

\* lines 88-93
nb_iterations(id) ==
  IF id = 1 THEN FirstStepIterations
  ELSE IF id = 2 THEN SecondStepIterations
  ELSE 0

StageName(id) == IF id = 1 THEN "first-generation" ELSE "second-generation"

\* the stage entered whether or not its flag is in the list
EnterGenerationUnselected(id, skipTo) ==
  IF SubjectArgError(args) # "none"
  THEN /\ pc' = skipTo
       /\ UNCHANGED <<subject, identifier, iteration, error, trace>>
  ELSE /\ pc' = "gen"
       /\ subject' = SubjectArg(args)
       /\ identifier' = id
       /\ iteration' = 0
       /\ trace' = Append(trace, <<StageName(id), "begin">>)
       /\ UNCHANGED error

\* lines 165-168 and 177-180: the test of a generation flag and the call
EnterGeneration(id, skipTo) ==
  IF ("--" \o StageName(id)) \notin Range(args)
  THEN /\ pc' = skipTo
       /\ UNCHANGED <<subject, identifier, iteration, error, trace>>
  ELSE IF SubjectArgError(args) # "none"
  THEN /\ pc' = "exit"
       /\ error' = SubjectArgError(args)
       /\ UNCHANGED <<subject, identifier, iteration, trace>>
  ELSE /\ pc' = "gen"
       /\ subject' = SubjectArg(args)
       /\ identifier' = id
       /\ iteration' = 0
       /\ trace' = Append(trace, <<StageName(id), "begin">>)
       /\ UNCHANGED error

FirstGeneration ==
  /\ pc = "first"
  /\ EnterGeneration(1, "second")
  /\ UNCHANGED <<files, args, response, walk, out, runs>>

SecondGeneration ==
  /\ pc = "second"
  /\ EnterGeneration(2, "combine")
  /\ UNCHANGED <<files, args, response, walk, out, runs>>

\* lines 95-101: one iteration of generate_dataset, the reply being r.
\* Prompt.get_prompt and the completion service are outside src/main.py: the
\* prompt is taken to be built without a write and the service to answer.
\* The reply is one that leaves the file within MaxRows data rows. A reply
\* that is a JSON object gets the file opened and its header written, then
\* ends the process.
GenerateIteration(r) ==
  /\ pc = "gen"
  /\ iteration < nb_iterations(identifier)
  /\ response' = r
  /\ LET written == write_csv(files[TargetPath(subject)], r)
     IN /\ DataRows(written) <= MaxRows
        /\ files' = [files EXCEPT ![TargetPath(subject)] = written]
  /\ IF RaisesTypeErrorInLoop(r)
     THEN /\ error' = "TypeError"
          /\ pc' = "exit"
          /\ UNCHANGED iteration
     ELSE /\ iteration' = iteration + 1
          /\ UNCHANGED <<pc, error>>
  /\ UNCHANGED <<args, subject, identifier, walk, out, trace, runs>>

\* the loop of generate_dataset is over
GenerateReturn ==
  /\ pc = "gen"
  /\ iteration = nb_iterations(identifier)
  /\ IF identifier = 1
     THEN pc' = "manual" /\ UNCHANGED trace
     ELSE pc' = "combine" /\ trace' = Append(trace, <<StageName(identifier), "end">>)
  /\ UNCHANGED <<files, args, subject, identifier, iteration, response, walk, out, error, runs>>

\* lines 171-175
ManualQuestions ==
  /\ pc = "manual"
  /\ files' = [p \in DOMAIN files |->
                 IF \E n \in ManualMatches(files) : p = <<n>>
                 THEN add_manual_questions(files[p], files[p])
                 ELSE files[p]]
  /\ trace' = Append(trace, <<"first-generation", "end">>)
  /\ pc' = "second"
  /\ UNCHANGED <<args, subject, identifier, iteration, response, walk, out, error, runs>>

\* lines 182-184: combine_datasets
Combine ==
  /\ pc = "combine"
  /\ IF "--combine" \notin Range(args)
     THEN /\ pc' = "nodup"
          /\ UNCHANGED <<files, walk, out, error, trace>>
     ELSE \E order \in Orders(Discovered([files EXCEPT ![CorpusPath] = File(<<HeaderLine>>)])) :
            LET r == combine_datasets(files, order)
            IN /\ files' = [files EXCEPT ![CorpusPath] = File(r.lines)]
               /\ walk' = order
               /\ error' = r.err
               /\ trace' = Append(trace, <<"combine", "begin">>)
               /\ pc' = IF r.err = "none" THEN "postpass" ELSE "exit"
               /\ out' = IF r.err # "none" THEN out
                         ELSE IF order = <<>> THEN out \cup {"No csv file found"}
                         ELSE out \cup {"Done combining datasets"}
  /\ UNCHANGED <<args, subject, identifier, iteration, response, runs>>

\* lines 185-187: the derived-text pass over the corpus
PostPass ==
  /\ pc = "postpass"
  /\ LET df == read_csv(corpus)
     IN IF \E i \in 1..Len(df.rows) : RaisesTypeError(df.cols, df.rows[i])
        THEN /\ error' = "TypeError"
             /\ pc' = "exit"
             /\ UNCHANGED <<files, trace>>
        ELSE /\ files' = [files EXCEPT ![CorpusPath] = File(to_csv(Apply(df), TRUE))]
             /\ trace' = Append(trace, <<"combine", "end">>)
             /\ pc' = "nodup"
             /\ UNCHANGED error
  /\ UNCHANGED <<args, subject, identifier, iteration, response, walk, out, runs>>

\* lines 189-194
NoDuplicates ==
  /\ pc = "nodup"
  /\ IF "--no-duplicates" \notin Range(args)
     THEN UNCHANGED <<files, trace>>
     ELSE /\ files' = [p \in DOMAIN files |->
                         IF \E n \in DuplicateMatches(files) : p = <<n>>
                         THEN verify_duplicates(files[p])
                         ELSE files[p]]
          /\ trace' = trace \o << <<"no-duplicates", "begin">>, <<"no-duplicates", "end">> >>
  /\ pc' = "exit"
  /\ UNCHANGED <<args, subject, identifier, iteration, response, walk, out, error, runs>>

Pipeline(replies) ==
  \/ FirstGeneration
  \/ \E r \in replies : GenerateIteration(r)
  \/ GenerateReturn
  \/ ManualQuestions
  \/ SecondGeneration
  \/ Combine
  \/ PostPass
  \/ NoDuplicates

\* the program run again and again in its ordinary use
Next ==
  \/ \E a \in RunLists : Main(a)
  \/ Pipeline(PlainReplies)

Spec == Init /\ [][Next]_vars

\* the program started once in its ordinary use, with every kind of reply
NextGen ==
  \/ runs = 0 /\ \E a \in RunLists : Main(a)
  \/ Pipeline(Replies)

SpecGen == Init /\ [][NextGen]_vars

\* the program started once, with any argument list
NextCli ==
  \/ runs = 0 /\ \E a \in ArgLists : Main(a)
  \/ Pipeline(ShortReplies)

SpecCli == Init /\ [][NextCli]_vars

\* the program started once in its ordinary use
NextOnce ==
  \/ runs = 0 /\ \E a \in RunLists : Main(a)
  \/ Pipeline(PlainReplies)

\* ... in a tree that may hold stray files
SpecStray == InitStray /\ [][NextOnce]_vars

\* ... after an earlier run
SpecOld == InitOld /\ [][NextOnce]_vars

\* -------------------------------------------------------------- properties
IsPrefix(a, b) == Len(a) <= Len(b) /\ SubSeq(b, 1, Len(a)) = a

HeaderCount(lines) == Cardinality({k \in 1..Len(lines) : lines[k] = HeaderLine})

IsWellFormed(d) == Keys \subseteq DOMAIN d

\* a step that is one iteration of generate_dataset
IsIteration == iteration' = iteration + 1

\* C1  Header-once: a generated file that started absent or empty has, whenever
\* it is not empty, the header as its first line and nowhere else.
HeaderOnce ==
  \A s \in Subjects :
    gen(s).lines # <<>> => gen(s).lines[1] = HeaderLine /\ HeaderCount(gen(s).lines) = 1

\* two iterations have each appended a row to the same file
HeaderOnceWitness ==
  /\ pc = "gen"
  /\ iteration = 2
  /\ response.kind = "array"
  /\ Len(response.array) = 1
  /\ DataRows(gen(subject)) = 2
  /\ gen(subject).lines[1] = HeaderLine

\* C2  Partial-record robustness: a write_csv call for an array reply of N
\* objects, K of them incomplete, appends exactly N-K rows, the rows of the
\* well-formed objects in their order, and nothing for an incomplete one.
PartialRecordRobustness ==
  [][IsIteration /\ response'.kind = "array" =>
       LET before == IF gen(subject).lines = <<>> THEN <<HeaderLine>> ELSE gen(subject).lines
           after == files'[GenPath(subject)].lines
           good == SelectSeq(response'.array, IsWellFormed)
           K == Cardinality({k \in 1..Len(response'.array) : ~IsWellFormed(response'.array[k])})
       IN /\ Len(after) - Len(before) = Len(response'.array) - K
          /\ after = before \o [k \in 1..Len(good) |-> FormatRow(good[k])]]_vars

\* an incomplete object came first and the well-formed one after it was appended
PartialRecordWitness ==
  /\ pc = "gen"
  /\ response.kind = "array"
  /\ Len(response.array) = 2
  /\ ~IsWellFormed(response.array[1])
  /\ IsWellFormed(response.array[2])
  /\ DataRows(gen(subject)) = 2
  /\ gen(subject).lines[3] = FormatRow(response.array[2])

\* C3  Malformed-JSON isolation: an iteration whose payload is not JSON writes
\* nothing (no header, no row, no file created), raises nothing, and leaves
\* generate_dataset in its loop.
MalformedJSONIsolation ==
  [][IsIteration /\ response'.kind = "text" =>
       /\ files' = files
       /\ error' = "none"
       /\ pc' = "gen"]_vars

\* the second iteration got a payload that is not JSON, the row of the first is still there
MalformedJSONWitness ==
  /\ pc = "gen"
  /\ identifier = 1
  /\ iteration = 2
  /\ response.kind = "text"
  /\ error = "none"
  /\ DataRows(gen(subject)) = 1
  /\ \E s \in Subjects : ~gen(s).exists

\* C4  Append-only growth: the content of a generated file before a step is a
\* prefix of its content after it, and a file that exists keeps existing.
AppendOnlyGrowth ==
  [][\A s \in Subjects :
       /\ IsPrefix(gen(s).lines, files'[GenPath(s)].lines)
       /\ gen(s).exists => files'[GenPath(s)].exists]_vars

\* the second stage appended a row to a file that held one
AppendOnlyWitness ==
  /\ pc = "gen"
  /\ identifier = 2
  /\ iteration = 1
  /\ response.kind = "array"
  /\ Len(response.array) = 1
  /\ IsWellFormed(response.array[1])
  /\ DataRows(gen(subject)) = 2

DataLines(f) == IF f.lines = <<>> THEN <<>> ELSE Tail(f.lines)

RECURSIVE DiscoveredLines(_)
DiscoveredLines(order) ==
  IF order = <<>> THEN <<>> ELSE DataLines(files[Head(order)]) \o DiscoveredLines(Tail(order))

\* the corpus row holds the fields of the line, in their places
Carries(row, line) ==
  /\ Len(line) <= Len(row)
  /\ \A j \in 1..Len(line) : row[j].v = line[j].v

\* combine_datasets has run and the derived-text pass has not rewritten the corpus
CombineRan == trace # <<>> /\ trace[Len(trace)] = <<"combine", "begin">>

\* every discovered file has its header line
DiscoveredWithHeader == \A k \in 1..Len(walk) : files[walk[k]].lines # <<>>

\* C5  Combine completeness: after combine_datasets over generated files that
\* have their header, the corpus is one header line followed by the data rows
\* of every discovered file, all of them and once, the files in discovery
\* order and each file's rows in their order.
CombineCompleteness ==
  CombineRan /\ DiscoveredWithHeader =>
    LET src == DiscoveredLines(walk)
        rows == DataLines(corpus)
    IN /\ corpus.lines # <<>>
       /\ corpus.lines[1] = HeaderLine
       /\ HeaderCount(corpus.lines) = 1
       /\ Len(rows) = Len(src)
       /\ \A k \in 1..Len(rows) : k <= Len(src) => Carries(rows[k], src[k])

\* combine_datasets has returned in this run
CombineReturned == out \cap {"Done combining datasets", "No csv file found"} # {}

\* C6  Derived-text correctness: once the --combine stage of a run in which
\* combine_datasets returned is over, every data row of the corpus has
\* text = input + "->: " + output, and the pass changed no instruction, input
\* or output and kept the number of rows.
DerivedTextState ==
  CombineReturned /\ pc \in {"nodup", "exit"} =>
    \A k \in 2..Len(corpus.lines) :
      LET row == corpus.lines[k]
      IN Len(row) = 4 /\ row[4].v = Concat(row[2].v, row[3].v)

DerivedTextStep ==
  pc = "postpass" /\ pc' = "nodup" =>
    /\ Len(files'[CorpusPath].lines) = Len(corpus.lines)
    /\ \A k \in 2..Len(corpus.lines) :
         \A j \in 1..3 : files'[CorpusPath].lines[k][j].v = corpus.lines[k][j].v

DerivedTextCorrectness == []DerivedTextState /\ [][DerivedTextStep]_vars

\* C7  Deduplication: after a run with --no-duplicates, the corpus being there,
\* the corpus holds no two equal data rows, has its header once, and the
\* resolver applied to it again changes nothing.
NoEqualRows(lines) ==
  \A j, k \in 2..Len(lines) : j # k => lines[j] # lines[k]

Deduplication ==
  /\ pc = "exit"
  /\ \E k \in 1..Len(trace) : trace[k] = <<"no-duplicates", "end">>
  /\ corpus.exists
  => /\ NoEqualRows(corpus.lines)
     /\ HeaderCount(corpus.lines) = 1
     /\ verify_duplicates(corpus) = corpus

HasGenerationFlag(a) == "--first-generation" \in Range(a) \/ "--second-generation" \in Range(a)

HasValidSubject(a) == \E k \in 1..(Len(a) - 1) : a[k] = "--subject" /\ a[k + 1] \in subject_list

\* C8  InvalidArgument: for an argument list that is empty or holds a token
\* that is neither a flag nor a configured subject, usage is printed, no stage
\* executes and no dataset file is created or modified.
InvalidArgumentNoStage ==
  runs = 1 /\ PrintsUsage(args) =>
    /\ "usage" \in out
    /\ trace = <<>>
    /\ \A p \in GenPaths : files[p] \in {Absent, Empty}
    /\ ~corpus.exists

\* C9  Subject validation: with a generation flag in the list, a stage executes
\* only if --subject is immediately followed by a configured subject; otherwise
\* no stage executes and the process ends normally after printing guidance.
SubjectValidation ==
  runs = 1 /\ HasGenerationFlag(args) =>
    /\ trace # <<>> => HasValidSubject(args)
    /\ ~HasValidSubject(args) => trace = <<>> /\ pc = "exit" /\ error = "none" /\ out # {}

StageOrder == <<"first-generation", "second-generation", "combine", "no-duplicates">>

Rank(stage) == CHOOSE k \in 1..Len(StageOrder) : StageOrder[k] = stage

\* C10  Fixed stage order: whatever the order of the flags, only selected
\* stages run, each at most once, in the order first-generation,
\* second-generation, combine, no-duplicates, one beginning only after the one
\* before it has ended; a run that ends normally has run every selected stage.
FixedStageOrder ==
  /\ \A k \in 1..Len(trace) :
       /\ ("--" \o trace[k][1]) \in Range(args)
       /\ trace[k][2] = "end" => k > 1 /\ trace[k - 1] = <<trace[k][1], "begin">>
       /\ trace[k][2] = "begin" /\ k > 1 =>
            trace[k - 1][2] = "end" /\ Rank(trace[k - 1][1]) < Rank(trace[k][1])
  /\ pc = "exit" /\ error = "none" /\ runs >= 1 /\ Dispatch(args) = "pipeline" =>
       \A k \in 1..Len(StageOrder) :
         ("--" \o StageOrder[k]) \in Range(args) =>
           \E j \in 1..Len(trace) : trace[j] = <<StageOrder[k], "end">>

\* --combine came first in the list, the generation stage ran first
FixedStageOrderWitness ==
  /\ pc = "exit"
  /\ error = "none"
  /\ Len(args) = 4
  /\ args[1] = "--combine"
  /\ trace = << <<"second-generation", "begin">>, <<"second-generation", "end">>,
                <<"combine", "begin">>, <<"combine", "end">> >>

RecordFields(d) == <<d["instruction"], d["input"], d["output"]>>

\* C11  Delimiter neutralisation: every row an iteration appends for a
\* well-formed record has three delimiter-separated fields, the i-th of them
\* the record's i-th field (instruction, input, output), also when a field of
\* the record holds the delimiter.
DelimiterNeutralisation ==
  [][IsIteration /\ response'.kind = "array" =>
       LET after == files'[GenPath(subject)].lines
           good == SelectSeq(response'.array, IsWellFormed)
       IN \A k \in 1..Len(good) :
            LET row == after[Len(after) - Len(good) + k]
            IN /\ Len(row) = Len(RecordFields(good[k]))
               /\ \A j \in 1..Len(row) : j <= Len(RecordFields(good[k])) =>
                    row[j].v = RecordFields(good[k])[j]]_vars

InTrace(stage, mark) == \E k \in 1..Len(trace) : trace[k] = <<stage, mark>>

\* C12  EmptyCorpus: when the combine of a run has discovered no generated
\* file, "No csv file found" is printed, nothing is raised, and from then on
\* through the derived-text pass to the end of the run the corpus is the
\* header line alone.
EmptyCorpus ==
  InTrace("combine", "begin") /\ walk = <<>> =>
    /\ "No csv file found" \in out
    /\ error = "none"
    /\ corpus = File(<<HeaderLine>>)
    /\ DataRows(corpus) = 0

\* a --combine stage that found no file is over, derived-text pass included
EmptyCorpusWitness ==
  /\ pc = "exit"
  /\ InTrace("combine", "end")
  /\ walk = <<>>
  /\ "No csv file found" \in out
  /\ corpus.lines = <<HeaderLine>>

\* C13  Seed merge: when the first-generation stage of a run for a subject is
\* over, the generated file of the subject ends with one row per question row
\* of the subject's seed file, the row add_manual_questions makes of it.
SeedMerge ==
  pc = "second" /\ InTrace("first-generation", "end") =>
    LET seed == read_csv(files[ManualPath(subject)])
        m == Len(seed.rows)
        lines == gen(subject).lines
    IN /\ m <= Len(lines)
       /\ \A i \in 1..m : i <= Len(lines) => lines[Len(lines) - m + i] = ManualRow(seed.rows[i])

\* the well-formed records of a payload
Yield(reply) == IF reply.kind = "array" THEN Len(SelectSeq(reply.array, IsWellFormed)) ELSE 0

\* C14  Stage termination without rollback: generate_dataset is left only
\* after nb_iterations cycles and without an exception; every cycle counts
\* once, whatever its reply, leaves the rows the file had in place and adds as
\* many rows as its reply has well-formed records.
StageTermination ==
  [][/\ pc = "gen" /\ pc' # "gen" =>
          /\ iteration = nb_iterations(identifier)
          /\ error' = "none"
          /\ files' = files
     /\ pc = "gen" /\ pc' = "gen" =>
          /\ iteration' = iteration + 1
          /\ iteration' <= nb_iterations(identifier)
          /\ DataRows(files'[GenPath(subject)]) = DataRows(gen(subject)) + Yield(response')
          /\ IsPrefix(DataLines(gen(subject)), DataLines(files'[GenPath(subject)]))]_vars

\* C15  Combine reinitialises the corpus: once the combine of a run has begun,
\* whatever the corpus held before, the corpus is one header line followed by
\* no more rows than the discovered generated files hold, and by exactly as
\* many when nothing was raised: no row of an earlier combine is left in it.
CombineReinitialises ==
  InTrace("combine", "begin") =>
    /\ corpus.lines # <<>>
    /\ corpus.lines[1] = HeaderLine
    /\ HeaderCount(corpus.lines) = 1
    /\ DataRows(corpus) <= Len(DiscoveredLines(walk))
    /\ error = "none" => DataRows(corpus) = Len(DiscoveredLines(walk))

\* a --combine stage is over whose corpus is the one row, not the row of the
\* earlier run, of the one generated file there is
CombineReinitialisesWitness ==
  /\ pc = "exit"
  /\ error = "none"
  /\ InTrace("combine", "end")
  /\ Len(walk) = 1
  /\ DataRows(files[walk[1]]) = 1
  /\ DataRows(corpus) = 1
  /\ corpus # OldCorpus

\* C16  Discovery reads what it finds: the combine of a run raises no
\* FileNotFoundError for a name it has discovered, and when nothing was raised
\* the corpus holds as many rows as the discovered files hold, each file where
\* it was found counted once.
DiscoveryReadsWhatItFinds ==
  CombineRan =>
    /\ error # "FileNotFoundError"
    /\ error = "none" => DataRows(corpus) = Len(DiscoveredLines(walk))

\* C17  Frame of the stages: a step of a generation stage for a subject
\* changes no file but the subject's generated file, a step of the combine or
\* the deduplicate stage no file but the corpus, and no step takes a line from
\* a generated file or a seed file or removes one.
FrameOfStages ==
  [][/\ pc \in {"first", "gen", "manual", "second"} =>
          \A p \in Paths : p # GenPath(subject) => files'[p] = files[p]
     /\ pc \in {"combine", "postpass", "nodup"} =>
          \A p \in Paths : p # CorpusPath => files'[p] = files[p]
     /\ \A p \in GenPaths \cup ManualPaths :
          /\ IsPrefix(files[p].lines, files'[p].lines)
          /\ files[p].exists => files'[p].exists]_vars

\* a run of both kinds of stage is over: the subject's file has rows, the
\* other subject has no file still, the seed files are as they were and the
\* corpus is there
FrameOfStagesWitness ==
  /\ pc = "exit"
  /\ InTrace("first-generation", "end")
  /\ InTrace("combine", "end")
  /\ DataRows(gen(subject)) >= 1
  /\ \E s \in Subjects : s # subject /\ gen(s) = Absent
  /\ \A s \in Subjects : files[ManualPath(s)] = ManualFile(s)
  /\ DataRows(corpus) >= 1

====
